---- MODULE Spec2Model ----
(***************************************************************************)
(* The gateway of cdap-ui: the express application built by makeApp in     *)
(* src/app/cdap/components/HttpExecutor/SaveCalls/index.tsx (the server    *)
(* part of that file, lines 64-796).                                       *)
(*                                                                         *)
(* One request is in flight at a time.  A route handler's synchronous part *)
(* is one action (the middleware chain in front of it included); every     *)
(* callback of an outbound request is an action of its own.                *)
(***************************************************************************)
EXTENDS Integers, Sequences, FiniteSets, TLC

\* ---------------------------------------------------------------- bounds
\* Requests the process is sent in one run.
MaxServed == 2
\* Last tick of the clock.
MaxTime == 2

\* ------------------------------------------------------------- JS values
\* A JS value that is undefined, a uuid, or a string (t names which).
JsUndefined == [t |-> "undefined", n |-> 0]
JsUuid(n) == [t |-> "uuid", n |-> n]
\* `${undefined}`: the seven-letter string.
JsStringUndefined == [t |-> "string", n |-> 0]
\* A template literal around a value: a string in every case.
TemplateLiteral(v) == IF v.t = "undefined" THEN JsStringUndefined ELSE v

\* A header that the request does not carry reads as undefined.
UNDEF == "<undefined>"

\* ------------------------------------------------------------ header maps
\* A header map is a function from header names to values (strings).
NoHeaders == [k \in {} |-> ""]
HeaderNames ==
  {"Authorization", "authorization", "AUTHORIZATION", "X-User", "x-user",
   "Content-Security-Policy", "content-security-policy",
   "Strict-Transport-Security", "strict-transport-security",
   "Content-Type", "content-type", "Cache-Control", "cache-control",
   "Content-Disposition", "content-disposition", "Location", "location",
   "Set-Cookie", "set-cookie"}
\* String.prototype.toLowerCase on the header names of the model.
ToLower(name) ==
  CASE name \in {"Authorization", "authorization", "AUTHORIZATION"} -> "authorization"
    [] name \in {"X-User", "x-user"} -> "x-user"
    [] name \in {"Content-Security-Policy", "content-security-policy"} -> "content-security-policy"
    [] name \in {"Strict-Transport-Security", "strict-transport-security"} -> "strict-transport-security"
    [] name \in {"Content-Type", "content-type"} -> "content-type"
    [] name \in {"Cache-Control", "cache-control"} -> "cache-control"
    [] name \in {"Content-Disposition", "content-disposition"} -> "content-disposition"
    [] name \in {"Location", "location"} -> "location"
    [] name \in {"Set-Cookie", "set-cookie"} -> "set-cookie"
    [] OTHER -> name
\* obj with every key lower-cased.
LowerKeys(obj) ==
  [k \in {ToLower(n) : n \in DOMAIN obj} |->
     obj[CHOOSE n \in DOMAIN obj : ToLower(n) = k]]
\* The headers of an http.IncomingMessage: node lower-cases the names it read
\* from the wire.
IncomingHeaders(wire) == LowerKeys(wire)
\* delete obj[key]: an exact, case-sensitive property name.
Delete(obj, key) == [k \in DOMAIN obj \ {key} |-> obj[k]]
\* Object.assign-like overwrite of h by obj.
Assign(h, obj) ==
  [k \in DOMAIN h \cup DOMAIN obj |-> IF k \in DOMAIN obj THEN obj[k] ELSE h[k]]
\* res.set(obj) / res.header(obj) / dest.setHeader(name, value) on a
\* ServerResponse: header names are case-insensitive and kept lower-cased.
ResSet(h, obj) == Assign(h, LowerKeys(obj))

\* stripAuthHeadersInProxyMode(cdapConfig, res), on res.headers.
stripAuthHeadersInProxyMode(cfg, headers) ==
  IF cfg.authMode = "PROXY"
    THEN Delete(Delete(headers, "Authorization"), cfg.identityHeader)
    ELSE headers

\* ------------------------------------------------------------ the config
AuthModes == {"OFF", "BASIC", "PROXY"}
\* security.authentication.proxy.user.identity.header, as an operator may
\* write it: capitalised, or already in lower case.
IdentityHeaders == {"X-User", "x-user"}
\* A config string is a sequence of one-character strings.
Digits == {"0", "1", "2", "3", "4", "5", "6", "7", "8", "9"}
DigitVal(c) ==
  CASE c = "0" -> 0 [] c = "1" -> 1 [] c = "2" -> 2 [] c = "3" -> 3
    [] c = "4" -> 4 [] c = "5" -> 5 [] c = "6" -> 6 [] c = "7" -> 7
    [] c = "8" -> 8 [] c = "9" -> 9
RECURSIVE ParseDigits(_, _)
ParseDigits(s, acc) ==
  IF s = <<>> \/ Head(s) \notin Digits
    THEN acc
    ELSE ParseDigits(Tail(s), 10 * acc + DigitVal(Head(s)))
\* parseInt(string): the leading decimal digits; NaN (here -1) without any.
parseInt(s) ==
  IF s = <<>> \/ Head(s) \notin Digits THEN -1 ELSE ParseDigits(s, 0)
\* hsts.max.age values of the model: decimal integers as an operator writes
\* them.
MaxAgeStrings == {<<"0">>, <<"7">>, <<"4", "2">>}
BoolStrings == {"true", "false"}

\* Faulty variant of hstsSettings: includeSubDomains is left to helmet's default.
hstsSettingsSubDomainsDefault(cfg) ==
  [maxAge |-> parseInt(cfg.hstsMaxAge),
   includeSubDomains |-> TRUE,
   preload |-> cfg.hstsPreload = "true"]
\* hstsSettings of makeApp.
hstsSettings(cfg) ==
  [maxAge |-> parseInt(cfg.hstsMaxAge),
   includeSubDomains |-> cfg.hstsIncludeSubDomains = "true",
   preload |-> cfg.hstsPreload = "true"]
\* The Strict-Transport-Security value helmet writes for its hsts options.
StrictTransportSecurity(o) ==
  "max-age=" \o ToString(o.maxAge)
    \o (IF o.includeSubDomains THEN "; includeSubDomains" ELSE "")
    \o (IF o.preload THEN "; preload" ELSE "")
\* helmet's hsts option: false (no header) or the settings.
hstsHeader(cfg) ==
  IF cfg.hstsEnabled = "true"
    THEN "strict-transport-security" :> StrictTransportSecurity(hstsSettings(cfg))
    ELSE NoHeaders
\* The script-src directive of the policy: the response's nonce and the
\* process-wide serverNonce.
scriptSrc(localsNonce, sNonce) ==
  "script-src 'nonce-"
    \o (IF localsNonce.t = "uuid" THEN ToString(localsNonce.n) ELSE "undefined")
    \o "' 'unsafe-inline' nonce-" \o ToString(sNonce) \o " 'unsafe-eval'"
\* The uuids that stand in that directive.
scriptSrcNonces(localsNonce, sNonce) ==
  (IF localsNonce.t = "uuid" THEN {localsNonce.n} ELSE {}) \cup {sNonce}

\* ------------------------------------------------------------ url helper
NoUrl == [scheme |-> "", host |-> ""]
\* getMarketUrls(cdapConfig): the hub urls of the config.
getMarketUrls(cfg) == {[scheme |-> "https", host |-> "hub.example"]}
\* isVerifiedMarketHost(cdapConfig, link): scheme and host are those of a
\* market url, exactly.
isVerifiedMarketHost(cfg, link) ==
  \E m \in getMarketUrls(cfg) : m.scheme = link.scheme /\ m.host = link.host
\* The source links a client may send: the hub, the hub over another scheme,
\* a host the hub's name is a prefix of, another host, and none.
SourceLinks ==
  {[scheme |-> "https", host |-> "hub.example"],
   [scheme |-> "http", host |-> "hub.example"],
   [scheme |-> "https", host |-> "hub.example.evil.example"],
   [scheme |-> "https", host |-> "evil.example"],
   NoUrl}

\* ------------------------------------------------------ session tokens
\* The validity window of a session token, in ticks.
SessionTimeout == 1
NoSessionToken == [kind |-> "absent", key |-> "", cred |-> "", iat |-> 0]
MalformedToken == [kind |-> "malformed", key |-> "", cred |-> "", iat |-> 0]
Sealed(key, cred, iat) == [kind |-> "sealed", key |-> key, cred |-> cred, iat |-> iat]
\* Whether the mode asks callers for a bearer credential.
RequiresCredential(cfg) == cfg.authMode # "OFF"
\* sessionToken.generateToken throws (AuthUnavailable) without a credential
\* where one is required.
generateTokenThrows(cfg, authToken) == authToken = "" /\ RequiresCredential(cfg)
\* sessionToken.generateToken(cdapConfig, log, authToken), issued at time t.
generateToken(cfg, authToken, t) == Sealed("server", authToken, t)
\* sessionToken.validateToken(token, cdapConfig, log, authToken), at time t.
validateToken(token, cfg, authToken, t) ==
  /\ token.kind = "sealed"
  /\ token.key = "server"
  /\ token.cred = authToken
  /\ t - token.iat <= SessionTimeout

\* ------------------------------------------------------------- the state
VARIABLES
  nodeEnv,        \* process.env.NODE_ENV
  authAddress,    \* authAddress.get(): the auth server's url, "" without one
  cdapConfig,     \* the config makeApp was given
  serverNonce,    \* const serverNonce of makeApp
  uiThemeConfig,  \* let uiThemeConfig of makeApp
  now,            \* the clock
  uuidNext,       \* the next uuid the generator hands out
  held,           \* the session token the client got last, and for what
  req,            \* the request in flight, or served last
  res,            \* its response
  outbound,       \* the outbound requests created for it, in order
  log,            \* what the handlers of this request logged
  pc,             \* where the request stands
  served          \* the responses before this one, oldest first

vars ==
  <<nodeEnv, authAddress, cdapConfig, serverNonce, uiThemeConfig, now, uuidNext,
    held, req, res, outbound, log, pc, served>>
config == <<nodeEnv, authAddress, cdapConfig, serverNonce>>

isModeDevelopment == nodeEnv = "development"

\* ----------------------------------------------------- requests, responses
\* at is the time the request is handled (what Date.now() reads then).
Request(route, auth, stoken) ==
  [route |-> route, auth |-> auth, stoken |-> stoken, source |-> NoUrl,
   themePath |-> "", cookie |-> "", qtype |-> "", filename |-> "",
   bcookie |-> FALSE, identity |-> UNDEF, at |-> now,
   method |-> "GET", path |-> <<>>, found |-> FALSE]
NoRequest == [Request("", UNDEF, NoSessionToken) EXCEPT !.at = 0]
\* What the client keeps of a GET /sessionToken: the token, the Authorization
\* value it sent, and when.
NothingHeld == [token |-> NoSessionToken, auth |-> UNDEF, at |-> 0]

\* A ServerResponse nothing has touched.
FreshRes ==
  [status |-> 200, body |-> "", token |-> NoSessionToken, headers |-> NoHeaders,
   sent |-> FALSE, ended |-> FALSE, sends |-> 0, writer |-> "",
   nonce |-> JsUndefined, scriptSrc |-> {},
   view |-> "", nonceVal |-> JsUndefined, events |-> <<>>, clientGone |-> FALSE,
   stack |-> <<>>]

\* Faulty variant of securityHeaderMiddleware: the process-wide serverNonce is used as
\* the nonce of every response.
securityHeaderMiddlewareServerNonce(r0) ==
  IF isModeDevelopment
    THEN r0
    ELSE [r0 EXCEPT
            !.nonce = JsUuid(serverNonce),
            !.scriptSrc = scriptSrcNonces(JsUuid(serverNonce), serverNonce),
            !.headers =
               ResSet(ResSet(r0.headers,
                             "Content-Security-Policy" :>
                               scriptSrc(JsUuid(serverNonce), serverNonce)),
                      hstsHeader(cdapConfig))]
\* Faulty variant of securityHeaderMiddleware: helmet without its content security
\* policy.
securityHeaderMiddlewareNoCsp(r0) ==
  IF isModeDevelopment
    THEN r0
    ELSE [r0 EXCEPT
            !.nonce = JsUuid(uuidNext),
            !.headers = ResSet(r0.headers, hstsHeader(cdapConfig))]
\* The middleware between the /api mount and the routes: outside development
\* mode the nonce middleware (res.locals.nonce = uuidV4()) and helmet; in
\* development mode neither is installed.
securityHeaderMiddleware(r0) ==
  IF isModeDevelopment
    THEN r0
    ELSE [r0 EXCEPT
            !.nonce = JsUuid(uuidNext),
            !.scriptSrc = scriptSrcNonces(JsUuid(uuidNext), serverNonce),
            !.headers =
               ResSet(ResSet(r0.headers,
                             "Content-Security-Policy" :>
                               scriptSrc(JsUuid(uuidNext), serverNonce)),
                      hstsHeader(cdapConfig))]
\* The uuid generator after the middleware ran.
uuidAfterMiddleware == IF isModeDevelopment THEN uuidNext ELSE uuidNext + 1

\* res.status(status).send(body).  A send after the headers went out throws
\* and changes nothing of the response on the wire; it is counted.
Send(r0, status, body) ==
  IF r0.sent
    THEN [r0 EXCEPT !.sends = @ + 1]
    ELSE [r0 EXCEPT !.status = status, !.body = body, !.sent = TRUE,
                    !.ended = TRUE, !.sends = @ + 1, !.writer = "handler"]
\* res.render(view, {nonceVal}).
Render(r0, view, nonceVal) ==
  [Send(r0, r0.status, "html") EXCEPT !.view = view, !.nonceVal = nonceVal]
\* What express answers when a handler throws and no error middleware stands
\* behind it: finalhandler's 500, under its own content security policy.
DefaultError(r0) ==
  [Send(r0, 500, "Internal Server Error") EXCEPT
     !.writer = "finalhandler",
     !.headers = ResSet(r0.headers, "Content-Security-Policy" :> "default-src 'none'"),
     !.scriptSrc = {}]

\* An outbound request object.  begun: the request has started on the
\* network.
Outbound(leg, method, headers) ==
  [leg |-> leg, method |-> method, headers |-> headers, state |-> "open",
   resHeaders |-> NoHeaders, begun |-> TRUE, statusCode |-> 0]
\* request(options) handed to .pipe(): a request that is the destination of a
\* pipe starts with the first chunk written into it, or with end().
PipedInto(out) == [out EXCEPT !.begun = FALSE]
\* What the synchronous part of a handler leaves behind.
Outcome(r1, out, at) == [res |-> r1, outbound |-> out, pc |-> at]
\* The headers of the inbound request, as req.headers holds them.
reqHeaders(r) ==
  (IF r.auth = UNDEF THEN NoHeaders ELSE "authorization" :> r.auth)
    @@ (IF r.identity = UNDEF THEN NoHeaders ELSE "x-user" :> r.identity)

\* The session gate of the protected endpoints:
\*   !req.headers['session-token'] ||
\*   (req.headers['session-token'] && !sessionToken.validateToken(...)).
gateRejects(r) ==
  \/ r.stoken.kind = "absent"
  \/ /\ r.stoken.kind # "absent"
     /\ ~validateToken(r.stoken, cdapConfig, r.auth, r.at)

\* --------------------------------------------- handlers, synchronous part
\* Each takes the request and the response as the middleware left it.

\* Faulty variant of forwardMarketToCdap: the allow-list is consulted ahead of
\* the session gate.
forwardMarketToCdapAllowListFirst(r, r0) ==
  IF ~isVerifiedMarketHost(cdapConfig, r.source)
    THEN Outcome(Send(r0, 403, "Invalid source link"), <<>>, "done")
    ELSE IF gateRejects(r)
      THEN Outcome(Send(r0, 500, "Unable to validate session"), <<>>, "done")
      ELSE Outcome(r0,
                   <<Outbound("hub", "GET", NoHeaders),
                     PipedInto(Outbound("backend", "POST", reqHeaders(r)))>>,
                   "streaming")
\* Faulty variant of forwardMarketToCdap: the allow-list check is left out.
forwardMarketToCdapUnchecked(r, r0) ==
  IF gateRejects(r)
    THEN Outcome(Send(r0, 500, "Unable to validate session"), <<>>, "done")
    ELSE Outcome(r0,
                 <<Outbound("hub", "GET", NoHeaders),
                   PipedInto(Outbound("backend", "POST", reqHeaders(r)))>>,
                 "streaming")
\* app.get('/forwardMarketToCdap'): the session gate, the allow-list, then
\* request(source).pipe(request(forwardRequestObject)).pipe(res): both
\* outbound request objects are created before the handler returns.  (The
\* session-token header rides in req.headers as well.)
forwardMarketToCdap(r, r0) ==
  IF gateRejects(r)
    THEN Outcome(Send(r0, 500, "Unable to validate session"), <<>>, "done")
    ELSE IF ~isVerifiedMarketHost(cdapConfig, r.source)
      THEN Outcome(Send(r0, 403, "Invalid source link"), <<>>, "done")
      ELSE Outcome(r0,
                   <<Outbound("hub", "GET", NoHeaders),
                     PipedInto(Outbound("backend", "POST", reqHeaders(r)))>>,
                   "streaming")

\* app.get('/market').
market(r, r0) ==
  IF ~isVerifiedMarketHost(cdapConfig, r.source)
    THEN Outcome(Send(r0, 403, "invalid market request"), <<>>, "done")
    ELSE Outcome(r0, <<Outbound("hub", "GET", NoHeaders)>>, "awaiting")

\* What a request callback is handed as its response: none on a network
\* error.
NoResponse == [available |-> FALSE, statusCode |-> 0]
Response(statusCode) == [available |-> TRUE, statusCode |-> statusCode]
\* (response && response.statusCode) || fallback.
StatusOr(response, fallback) ==
  IF response.available /\ response.statusCode # 0 THEN response.statusCode ELSE fallback
\* The callback of app.get('/market'): function(err, marketResponse).
marketCallback(r1, err, marketResponse) ==
  IF err
    THEN Send(r1, StatusOr(marketResponse, 502), "err")
    ELSE Send(r1, marketResponse.statusCode, "market body")
\* .on('error') of app.get('/market').
marketOnError(r1) == Send(r1, 502, "err.message")

\* app.get('/backendstatus'): the referer is dropped from the headers and
\* GET /v3/namespaces goes to the router.
backendstatus(r, r0) ==
  Outcome(r0, <<Outbound("backend", "GET", reqHeaders(r))>>, "awaiting")
\* The callback of app.get('/backendstatus'): function(err, response).
backendstatusCallback(r1, err, response) ==
  IF err
    THEN Send(r1, StatusOr(response, 502), "err")
    ELSE Send(r1, response.statusCode, "OK")
\* .on('error') of app.get('/backendstatus'): if (!res.headersSent).
backendstatusOnError(r1) ==
  IF ~r1.sent THEN Send(r1, 502, "err") ELSE r1

\* function authentication(req, res), of app.post('/login') and
\* app.post('/accessToken'), up to request(opts, ...).
authentication(r, r0) ==
  Outcome(r0, <<Outbound("auth", "GET", NoHeaders)>>, "awaiting")
\* JSON.parse(nbody) throws on a body that is not JSON.
AuthBodies == {"json", "not json"}
JSONparseThrows(nbody) == nbody # "json"
\* The callback of authentication: function(nerr, nres, nbody).  A throwing
\* JSON.parse leaves the callback before anything is sent.
authenticationCallback(r1, nerr, nres, nbody) ==
  IF nerr \/ nres.statusCode # 200
    THEN Send(r1, IF nres.available /\ nres.statusCode # 0 THEN nres.statusCode ELSE 500,
              nbody)
    ELSE IF JSONparseThrows(nbody)
      THEN r1
      ELSE Send(r1, r1.status, "jsonBody")

\* req.headers[name].
HeaderGet(h, name) == IF name \in DOMAIN h THEN h[name] ELSE UNDEF
\* Faulty variant of customHeaders: the cookie wins over the Authorization
\* header.
customHeadersCookieFirst(r) ==
  IF r.cookie # ""
    THEN "authorization" :> ("Bearer " \o r.cookie)
    ELSE IF r.auth \notin {UNDEF, ""}
      THEN ("authorization" :> r.auth)
             @@ (IF cdapConfig.authMode = "PROXY"
                   THEN cdapConfig.identityHeader :>
                          HeaderGet(reqHeaders(r), cdapConfig.identityHeader)
                   ELSE NoHeaders)
      ELSE NoHeaders
\* customHeaders of app.get('/downloadLogs').
customHeaders(r) ==
  IF r.auth \notin {UNDEF, ""}
    THEN ("authorization" :> r.auth)
           @@ (IF cdapConfig.authMode = "PROXY"
                 THEN cdapConfig.identityHeader :>
                        HeaderGet(reqHeaders(r), cdapConfig.identityHeader)
                 ELSE NoHeaders)
    ELSE IF r.cookie # ""
      THEN "authorization" :> ("Bearer " \o r.cookie)
      ELSE NoHeaders
\* app.get('/downloadLogs'), up to request(requestObject).
downloadLogs(r, r0) ==
  Outcome(r0, <<Outbound("backend", "GET", customHeaders(r))>>, "streaming")

\* Faulty variant of namespaces: only a token that is there and invalid is turned
\* away.
namespacesMissingPasses(r, r0) ==
  IF r.stoken.kind # "absent" /\ ~validateToken(r.stoken, cdapConfig, r.auth, r.at)
    THEN Outcome(Send(r0, 500, "Unable to validate session"), <<>>, "done")
    ELSE Outcome(r0,
                 <<Outbound("backend", "POST", "Content-Type" :> "application/octet-stream")>>,
                 "streaming")
\* app.post('/namespaces/:namespace/:path(*)').
namespaces(r, r0) ==
  IF gateRejects(r)
    THEN Outcome(Send(r0, 500, "Unable to validate session"), <<>>, "done")
    ELSE Outcome(r0,
                 <<Outbound("backend", "POST", "Content-Type" :> "application/octet-stream")>>,
                 "streaming")

\* The /api mount: express-http-proxy in front of the body parsers, the nonce
\* middleware and helmet.
api(r, r0) ==
  Outcome(r0, <<Outbound("backend", "GET", reqHeaders(r))>>, "streaming")

\* Faulty variant of sessionTokenRoute: the Authorization header is not read, every
\* token is generated for ''.
sessionTokenRouteUnbound(r, r0) ==
  IF generateTokenThrows(cdapConfig, "")
    THEN Outcome(DefaultError(r0), <<>>, "done")
    ELSE Outcome([Send(r0, r0.status, "sToken") EXCEPT
                    !.token = generateToken(cdapConfig, "", r.at)],
                 <<>>, "done")
\* Faulty variant of sessionTokenRoute: a failing generateToken is caught and a token
\* for '' is sent all the same.
sessionTokenRouteCatches(r, r0) ==
  LET authToken == IF r.auth = UNDEF THEN "" ELSE r.auth
  IN Outcome([Send(r0, r0.status, "sToken") EXCEPT
                !.token = generateToken(cdapConfig, authToken, r.at)],
             <<>>, "done")
\* app.get('/sessionToken').
sessionTokenRoute(r, r0) ==
  LET authToken == IF r.auth = UNDEF THEN "" ELSE r.auth
  IN IF generateTokenThrows(cdapConfig, authToken)
       THEN Outcome(DefaultError(r0), <<>>, "done")
       ELSE Outcome([Send(r0, r0.status, "sToken") EXCEPT
                       !.token = generateToken(cdapConfig, authToken, r.at)],
                    <<>>, "done")

\* uiThemeWrapper.extractUITheme(cdapConfig, uiThemePath) throws on a file it
\* cannot read or parse.
ThemePaths == {"", "good.json", "bad.json"}
extractUIThemeThrows(path) == path = "bad.json"
extractUITheme(path) == path
\* Faulty variant of updateThemeAssigns: the assignment is made although the
\* extraction threw.
updateThemeAssignsUnparsed(r) ==
  ~gateRejects(r) /\ r.themePath # ""
\* Faulty variant of updateThemeAssigns: the assignment is made ahead of the
\* session gate.
updateThemeAssignsUngated(r) ==
  r.themePath # "" /\ ~extractUIThemeThrows(r.themePath)
\* Whether app.post('/updateTheme') reaches its assignment of uiThemeConfig.
updateThemeAssigns(r) ==
  ~gateRejects(r) /\ r.themePath # "" /\ ~extractUIThemeThrows(r.themePath)
\* Faulty variant of updateTheme: a missing session-token header gets a message of
\* its own.
updateThemeTellsMissing(r, r0) ==
  IF r.stoken.kind = "absent"
    THEN Outcome(Send(r0, 401, "Missing session token"), <<>>, "done")
    ELSE IF ~validateToken(r.stoken, cdapConfig, r.auth, r.at)
      THEN Outcome(Send(r0, 500, "Unable to validate session"), <<>>, "done")
      ELSE IF r.themePath = ""
        THEN Outcome(Send(r0, 500, "UnKnown theme file. Please make sure the path is valid"),
                     <<>>, "done")
        ELSE IF extractUIThemeThrows(r.themePath)
          THEN Outcome(Send(r0, 500, "Error parsing theme file. Please make sure the path and the file contents are valid"),
                       <<>>, "done")
          ELSE Outcome(Send(r0, r0.status, "Theme updated"), <<>>, "done")
\* app.post('/updateTheme').
updateTheme(r, r0) ==
  IF gateRejects(r)
    THEN Outcome(Send(r0, 500, "Unable to validate session"), <<>>, "done")
    ELSE IF r.themePath = ""
      THEN Outcome(Send(r0, 500, "UnKnown theme file. Please make sure the path is valid"),
                   <<>>, "done")
      ELSE IF extractUIThemeThrows(r.themePath)
        THEN Outcome(Send(r0, 500, "Error parsing theme file. Please make sure the path and the file contents are valid"),
                     <<>>, "done")
        ELSE Outcome(Send(r0, r0.status, "Theme updated"), <<>>, "done")

\* removeBCookie(req, res, cookieSettings).
removeBCookie(r, r0) ==
  IF r.bcookie
    THEN [r0 EXCEPT !.headers = ResSet(@, "Set-Cookie" :> "bcookie=; Expires=Thu, 01 Jan 1970")]
    ELSE r0
\* app.get('/login').
loginPage(r, r0) ==
  IF authAddress = "" \/ r.auth \notin {UNDEF, ""}
    THEN Outcome([Send(r0, 302, "") EXCEPT !.headers = ResSet(r0.headers, "Location" :> "/")],
                 <<>>, "done")
    ELSE Outcome(Render(r0, "login", r0.nonce), <<>>, "done")
\* app.all(['/pipelines', '/pipelines/*']).
pipelines(r, r0) ==
  Outcome(Render(removeBCookie(r, r0), "hydrator", r0.nonce), <<>>, "done")
\* app.all(['/', '/cdap', '/cdap/*']).
cdap(r, r0) ==
  Outcome(Render(removeBCookie(r, r0), "cdap", TemplateLiteral(r0.nonce)), <<>>, "done")
\* app.get('/status').
status(r, r0) == Outcome(Send(r0, 200, "OK"), <<>>, "done")
\* app.get('/config.js').
configJs(r, r0) ==
  Outcome([Send(r0, r0.status, "window.CDAP_CONFIG = {...};") EXCEPT
             !.headers = ResSet(r0.headers,
                                ("Content-Type" :> "text/javascript")
                                  @@ ("Cache-Control" :> "no-store, must-revalidate"))],
          <<>>, "done")
\* app.get('/ui-config.js'): fs.readFileSync stands outside any try; where
\* cdap-ui-config.json cannot be read it throws ahead of res.header, and
\* express answers for the handler.
uiConfigJs(r, r0) ==
  IF r.found
    THEN Outcome([Send(r0, r0.status, "window.CDAP_UI_CONFIG = {...};") EXCEPT
                    !.headers = ResSet(r0.headers,
                                       ("Content-Type" :> "text/javascript")
                                         @@ ("Cache-Control" :> "no-store, must-revalidate"))],
                 <<>>, "done")
    ELSE Outcome(DefaultError(r0), <<>>, "done")
\* app.get('/ui-theme.js').
uiThemeJs(r, r0) ==
  Outcome([Send(r0, r0.status, "window.CDAP_UI_THEME = " \o uiThemeConfig \o ";") EXCEPT
             !.headers = ResSet(r0.headers,
                                ("Content-Type" :> "text/javascript")
                                  @@ ("Cache-Control" :> "no-store, must-revalidate"))],
          <<>>, "done")

\* ------------------------------------------------------ upstream events
\* The headers an upstream may put on the wire, names in any letter case.
WireValue(name) == "upstream-" \o ToLower(name)
Wire(names) == [n \in names |-> WireValue(n)]
\* res.set(obj) on the response record: a relayed Content-Security-Policy
\* replaces the policy helmet computed.
setHeaders(r1, obj) ==
  [r1 EXCEPT
     !.headers = ResSet(@, obj),
     !.scriptSrc = IF "content-security-policy" \in DOMAIN LowerKeys(obj) THEN {} ELSE @]
\* request's pipe into a ServerResponse (pipeDest): every header of the
\* upstream response and its status code are copied onto res.
pipeDest(r1, statusCode, headers) ==
  [setHeaders(r1, headers) EXCEPT !.status = statusCode]

\* What happened to a header object or to the body on the way to the client,
\* in the order it happened: the sanitizer ran on the object ("strip"), the
\* handler put it on res ("set"), the pipe copied it onto res ("pipeDest"),
\* body bytes were written to res ("write").
Event(op, obj) == [op |-> op, obj |-> obj]
Happened(r1, evs) == [r1 EXCEPT !.events = @ \o evs]

\* .on('response') of app.post('/namespaces/...') and the pipe into res.
\* stripAuthHeadersInProxyMode deletes from the upstream response's own
\* header object, which pipeDest then copies.
namespacesOnResponse(r1, statusCode, wire) ==
  LET newHeaders == stripAuthHeadersInProxyMode(cdapConfig, IncomingHeaders(wire))
  IN Happened(pipeDest(setHeaders(r1, newHeaders), statusCode, newHeaders),
              <<Event("strip", "upstream"), Event("set", "upstream"),
                Event("pipeDest", "upstream")>>)
\* .on('response') of app.get('/forwardMarketToCdap') and the pipe into res.
forwardOnResponse(r1, statusCode, wire) ==
  LET newHeaders == stripAuthHeadersInProxyMode(cdapConfig, IncomingHeaders(wire))
  IN Happened(pipeDest(setHeaders(r1, newHeaders), statusCode, newHeaders),
              <<Event("strip", "upstream"), Event("set", "upstream"),
                Event("pipeDest", "upstream")>>)
\* responseHeaders of app.get('/downloadLogs') on a 200.
responseHeaders(r) ==
  ("Cache-Control" :> "no-cache, no-store")
    @@ (IF r.qtype = "download"
          THEN "Content-Disposition" :> ("attachment; filename=" \o r.filename)
          ELSE "Content-Type" :> "text/plain")
\* Faulty variant of downloadLogsOnResponse: responseHeaders are set whatever
\* the upstream status.
downloadLogsOnResponseAnyStatus(r, r1, statusCode, wire) ==
  Happened(pipeDest(setHeaders(r1, stripAuthHeadersInProxyMode(cdapConfig,
                                                                responseHeaders(r))),
                    statusCode, IncomingHeaders(wire)),
           <<Event("strip", "responseHeaders"), Event("set", "responseHeaders"),
             Event("pipeDest", "upstream")>>)
\* .on('response') of app.get('/downloadLogs') and the pipe into res: the
\* handler strips and sets its own responseHeaders; the upstream's headers
\* reach res through the pipe.
downloadLogsOnResponse(r, r1, statusCode, wire) ==
  LET r2 == IF statusCode = 200
              THEN Happened(setHeaders(r1, stripAuthHeadersInProxyMode(cdapConfig,
                                                                       responseHeaders(r))),
                            <<Event("strip", "responseHeaders"),
                              Event("set", "responseHeaders")>>)
              ELSE r1
  IN Happened(pipeDest(r2, statusCode, IncomingHeaders(wire)),
              <<Event("pipeDest", "upstream")>>)
\* express-http-proxy: the proxied response's status and headers are copied
\* to the client; no decorator is configured on the mount.
apiOnResponse(r1, statusCode, wire) ==
  Happened(pipeDest(r1, statusCode, IncomingHeaders(wire)),
           <<Event("pipeDest", "upstream")>>)

\* ------------------------------------------------- the middleware stack
\* A layer of the app, as app.use / app.get / app.post / app.all registers it.
\* A path is the sequence of its segments.  match: "any" (no path),
\* "mount" (the path starts with the segment), "exact" (the path is the
\* segment), "under" (the segment and at least one more: '/x/*'),
\* "params" ('/namespaces/:namespace/:path(*)').  ends: the layer answers and
\* does not call next().
Layer(name, stage, methods, match, seg, ends) ==
  [name |-> name, stage |-> stage, methods |-> methods, match |-> match,
   seg |-> seg, ends |-> ends]
Methods == {"GET", "POST"}
Use(name, stage) == Layer(name, stage, Methods, "any", "", FALSE)
Get(name, seg) == Layer(name, "route", {"GET"}, "exact", seg, TRUE)
Post(name, seg) == Layer(name, "route", {"POST"}, "exact", seg, TRUE)
Static(name, seg) == Layer(name, "static", Methods, "mount", seg, TRUE)
\* Faulty variant of beforeRoutes: the body parsers stand in front of the /api
\* mount.
beforeRoutesParsersFirst ==
  <<Use("compression", "compression"),
    Use("bodyParser.json", "bodyParser"),
    Use("bodyParser.urlencoded", "bodyParser"),
    Layer("/api", "api", Methods, "mount", "api", TRUE),
    Use("cookieParser", "cookieParser")>>
\* app.use(serveFavicon(faviconPath)): installed where the icon file is there,
\* as in a built distribution.  It answers every request for /favicon.ico.
faviconLayer == <<Layer("favicon", "favicon", Methods, "exact", "favicon.ico", TRUE)>>
\* app.use(...) from compression to cookieParser.
beforeRoutes ==
  <<Use("compression", "compression"),
    Layer("/api", "api", Methods, "mount", "api", TRUE),
    Use("bodyParser.json", "bodyParser"),
    Use("bodyParser.urlencoded", "bodyParser"),
    Use("cookieParser", "cookieParser")>>
\* if (!isModeDevelopment()): the nonce middleware and helmet.
securityLayers == <<Use("nonce", "nonce"), Use("helmet", "helmet")>>
\* The default 500 error handler.  An error handler is passed over by a
\* request that carries no error.
errorHandler == <<Layer("errorHandler", "errorHandler", {}, "any", "", TRUE)>>
\* The routes registered ahead of the static mounts.
routesBeforeStatic ==
  <<Get("/analytics.js", "analytics.js"),
    Get("/config.js", "config.js"),
    Get("/ui-config.js", "ui-config.js"),
    Get("/ui-theme.js", "ui-theme.js"),
    Get("/forwardMarketToCdap", "forwardMarketToCdap"),
    Get("/market", "market"),
    Get("/downloadLogs", "downloadLogs"),
    Post("POST /login", "login"),
    Post("/accessToken", "accessToken"),
    Layer("/namespaces", "route", {"POST"}, "params", "namespaces", TRUE)>>
\* app.use('/assets', [express.static(...), 404]) and its four siblings.
staticMounts ==
  <<Static("/assets", "assets"),
    Static("/cdap_assets", "cdap_assets"),
    Static("/dll_assets", "dll_assets"),
    Static("/login_assets", "login_assets"),
    Static("/common_assets", "common_assets")>>
\* The routes registered behind the static mounts.
routesAfterStatic ==
  <<Get("/robots.txt", "robots.txt"),
    Get("/status", "status"),
    Get("/login", "login"),
    Get("/sessionToken", "sessionToken"),
    Post("POST /login", "login"),
    Get("/backendstatus", "backendstatus"),
    Post("/updateTheme", "updateTheme")>>
\* app.all(['/pipelines', '/pipelines/*']) and app.all(['/', '/cdap', '/cdap/*']).
renderRoutes ==
  <<Layer("/pipelines", "render", Methods, "exact", "pipelines", TRUE),
    Layer("/pipelines", "render", Methods, "under", "pipelines", TRUE),
    Layer("/cdap", "render", Methods, "root", "", TRUE),
    Layer("/cdap", "render", Methods, "exact", "cdap", TRUE),
    Layer("/cdap", "render", Methods, "under", "cdap", TRUE)>>
\* The stack of the app, in the order makeApp registers it.
behindSecurity ==
  errorHandler \o routesBeforeStatic \o staticMounts \o routesAfterStatic \o renderRoutes
stack ==
  faviconLayer \o beforeRoutes \o (IF isModeDevelopment THEN <<>> ELSE securityLayers) \o behindSecurity
\* Whether the layer takes the request.
Matches(layer, method, path) ==
  /\ method \in layer.methods
  /\ CASE layer.match = "any" -> TRUE
       [] layer.match = "root" -> path = <<>>
       [] layer.match = "mount" -> path # <<>> /\ Head(path) = layer.seg
       [] layer.match = "exact" -> path = <<layer.seg>>
       [] layer.match = "under" -> Len(path) >= 2 /\ Head(path) = layer.seg
       [] layer.match = "params" -> Len(path) >= 3 /\ Head(path) = layer.seg
\* The router's walk down the stack: the layers that take the request, up to
\* the first that answers.
RECURSIVE handle(_, _, _)
handle(layers, method, path) ==
  IF layers = <<>>
    THEN <<>>
    ELSE IF Matches(Head(layers), method, path)
      THEN IF Head(layers).ends
             THEN <<Head(layers)>>
             ELSE <<Head(layers)>> \o handle(Tail(layers), method, path)
      ELSE handle(Tail(layers), method, path)
\* The layer that answers, "404" where none does (express's own 404).
HandledBy(walk) ==
  IF walk # <<>> /\ walk[Len(walk)].ends THEN walk[Len(walk)].name ELSE "404"
\* finalhandler(req, res)(false), and express's answer to a request no layer
\* took: 404 under finalhandler's content security policy.
NotFound(r0) ==
  [Send(r0, 404, "Cannot " \o "GET") EXCEPT
     !.writer = "finalhandler",
     !.headers = ResSet(r0.headers, "Content-Security-Policy" :> "default-src 'none'"),
     !.scriptSrc = {}]
\* Faulty variant of staticMount: a path with no file under it is answered with
\* the app shell.
staticMountServesShell(r, r0) ==
  IF r.found
    THEN Outcome(Send(r0, 200, "file"), <<>>, "done")
    ELSE Outcome(Render(r0, "cdap", r0.nonce), <<>>, "done")
\* A static mount: express.static answers with the file, or calls next() and
\* the function behind it answers 404.
staticMount(r, r0) ==
  IF r.found
    THEN Outcome(Send(r0, 200, "file"), <<>>, "done")
    ELSE Outcome(NotFound(r0), <<>>, "done")
\* serveFavicon: the icon to GET, 405 to the methods it does not serve.
favicon(r, r0) ==
  IF r.method = "GET"
    THEN Outcome(Send(r0, 200, "icon"), <<>>, "done")
    ELSE Outcome(Send(r0, 405, ""), <<>>, "done")
\* The handler of the layer that answers.
routeHandler(r, r0) ==
  CASE r.route = "/api" -> api(r, r0)
    [] r.route = "favicon" -> favicon(r, r0)
    [] r.route = "/config.js" -> configJs(r, r0)
    [] r.route = "/ui-config.js" -> uiConfigJs(r, r0)
    [] r.route = "/ui-theme.js" -> uiThemeJs(r, r0)
    [] r.route = "/forwardMarketToCdap" -> forwardMarketToCdap(r, r0)
    [] r.route = "/market" -> market(r, r0)
    [] r.route = "/downloadLogs" -> downloadLogs(r, r0)
    [] r.route \in {"POST /login", "/accessToken"} -> authentication(r, r0)
    [] r.route = "/namespaces" -> namespaces(r, r0)
    [] r.route \in {"/assets", "/cdap_assets", "/dll_assets", "/login_assets",
                    "/common_assets"} -> staticMount(r, r0)
    [] r.route = "/status" -> status(r, r0)
    [] r.route = "/login" -> loginPage(r, r0)
    [] r.route = "/sessionToken" -> sessionTokenRoute(r, r0)
    [] r.route = "/backendstatus" -> backendstatus(r, r0)
    [] r.route = "/updateTheme" -> updateTheme(r, r0)
    [] r.route = "/pipelines" -> pipelines(r, r0)
    [] r.route = "/cdap" -> cdap(r, r0)
    [] r.route = "404" -> Outcome(NotFound(r0), <<>>, "done")
    [] OTHER -> Outcome(Send(r0, r0.status, r.route), <<>>, "done")

\* ---------------------------------------------------------------- actions
Started == Len(served) + (IF pc = "idle" THEN 0 ELSE 1)
Summary(r1) ==
  [view |-> r1.view, nonceVal |-> r1.nonceVal, nonce |-> r1.nonce,
   scriptSrc |-> r1.scriptSrc, sent |-> r1.sent]
\* A request arrives and its handler runs to its return.
Begin(r, o, uuid) ==
  /\ pc \in {"idle", "done", "hung", "gone"}
  /\ Started < MaxServed
  /\ served' = IF pc = "idle" THEN served ELSE Append(served, Summary(res))
  /\ req' = r
  /\ res' = o.res
  /\ outbound' = o.outbound
  /\ pc' = o.pc
  /\ uuidNext' = uuid
  /\ UNCHANGED <<config, now>>

LegState(leg) ==
  IF \E i \in DOMAIN outbound : outbound[i].leg = leg
    THEN outbound[CHOOSE i \in DOMAIN outbound : outbound[i].leg = leg].state
    ELSE "none"
LegBegun(leg) ==
  \E i \in DOMAIN outbound : outbound[i].leg = leg /\ outbound[i].begun
\* The leg got a response with this status code.
LegResponded(leg, statusCode) ==
  [i \in DOMAIN outbound |->
     IF outbound[i].leg = leg
       THEN [outbound[i] EXCEPT !.state = "responded", !.statusCode = statusCode]
       ELSE outbound[i]]
SetLeg(leg, st) ==
  [i \in DOMAIN outbound |->
     IF outbound[i].leg = leg THEN [outbound[i] EXCEPT !.state = st] ELSE outbound[i]]

ForwardMarketToCdap(r) ==
  /\ r.route = "/forwardMarketToCdap"
  /\ Begin(r, forwardMarketToCdap(r, securityHeaderMiddleware(FreshRes)), uuidAfterMiddleware)
  /\ log' = {}
  /\ UNCHANGED <<uiThemeConfig, held>>
Market(r) ==
  /\ r.route = "/market"
  /\ Begin(r, market(r, securityHeaderMiddleware(FreshRes)), uuidAfterMiddleware)
  /\ log' = IF isVerifiedMarketHost(cdapConfig, r.source) THEN {} ELSE {"invalid market request"}
  /\ UNCHANGED <<uiThemeConfig, held>>
DownloadLogs(r) ==
  /\ r.route = "/downloadLogs"
  /\ Begin(r, downloadLogs(r, securityHeaderMiddleware(FreshRes)), uuidAfterMiddleware)
  /\ log' = {}
  /\ UNCHANGED <<uiThemeConfig, held>>
Namespaces(r) ==
  /\ r.route = "/namespaces"
  /\ Begin(r, namespaces(r, securityHeaderMiddleware(FreshRes)), uuidAfterMiddleware)
  /\ log' = {}
  /\ UNCHANGED <<uiThemeConfig, held>>
Api(r) ==
  /\ r.route = "/api"
  /\ Begin(r, api(r, FreshRes), uuidNext)
  /\ log' = {}
  /\ UNCHANGED <<uiThemeConfig, held>>
SessionToken(r) ==
  /\ r.route = "/sessionToken"
  /\ Begin(r, sessionTokenRoute(r, securityHeaderMiddleware(FreshRes)), uuidAfterMiddleware)
  /\ held' = IF res'.token.kind = "sealed"
               THEN [token |-> res'.token, auth |-> r.auth, at |-> r.at]
               ELSE held
  /\ log' = {}
  /\ UNCHANGED uiThemeConfig
UpdateTheme(r) ==
  /\ r.route = "/updateTheme"
  /\ Begin(r, updateTheme(r, securityHeaderMiddleware(FreshRes)), uuidAfterMiddleware)
  /\ uiThemeConfig' = IF updateThemeAssigns(r) THEN extractUITheme(r.themePath) ELSE uiThemeConfig
  /\ log' = {}
  /\ UNCHANGED held
LoginPage(r) ==
  /\ r.route = "/login"
  /\ Begin(r, loginPage(r, securityHeaderMiddleware(FreshRes)), uuidAfterMiddleware)
  /\ log' = {}
  /\ UNCHANGED <<uiThemeConfig, held>>
Pipelines(r) ==
  /\ r.route = "/pipelines"
  /\ Begin(r, pipelines(r, securityHeaderMiddleware(FreshRes)), uuidAfterMiddleware)
  /\ log' = {}
  /\ UNCHANGED <<uiThemeConfig, held>>
Cdap(r) ==
  /\ r.route = "/cdap"
  /\ Begin(r, cdap(r, securityHeaderMiddleware(FreshRes)), uuidAfterMiddleware)
  /\ log' = {}
  /\ UNCHANGED <<uiThemeConfig, held>>
Status(r) ==
  /\ r.route = "/status"
  /\ Begin(r, status(r, securityHeaderMiddleware(FreshRes)), uuidAfterMiddleware)
  /\ log' = {}
  /\ UNCHANGED <<uiThemeConfig, held>>
ConfigJs(r) ==
  /\ r.route = "/config.js"
  /\ Begin(r, configJs(r, securityHeaderMiddleware(FreshRes)), uuidAfterMiddleware)
  /\ log' = {}
  /\ UNCHANGED <<uiThemeConfig, held>>
UiThemeJs(r) ==
  /\ r.route = "/ui-theme.js"
  /\ Begin(r, uiThemeJs(r, securityHeaderMiddleware(FreshRes)), uuidAfterMiddleware)
  /\ log' = {}
  /\ UNCHANGED <<uiThemeConfig, held>>

\* The backend answers a streaming forwarder: the 'response' handler runs and
\* the pipe copies status and headers onto res.
BackendResponse(statusCode, wire) ==
  /\ pc = "streaming"
  /\ LegState("backend") = "open"
  /\ LegBegun("backend")
  /\ res' = CASE req.route = "/namespaces" -> namespacesOnResponse(res, statusCode, wire)
              [] req.route = "/forwardMarketToCdap" -> forwardOnResponse(res, statusCode, wire)
              [] req.route = "/downloadLogs" -> downloadLogsOnResponse(req, res, statusCode, wire)
              [] req.route = "/api" -> apiOnResponse(res, statusCode, wire)
  /\ outbound' = [i \in DOMAIN outbound |->
                    IF outbound[i].leg = "backend"
                      THEN [outbound[i] EXCEPT !.state = "responded",
                                               !.statusCode = statusCode,
                                               !.resHeaders = IncomingHeaders(wire)]
                      ELSE outbound[i]]
  /\ pc' = "piping"
  /\ UNCHANGED <<config, uiThemeConfig, now, uuidNext, held, req, log, served>>
\* The upstream body has been piped through: the headers and the body went
\* out and res is ended.
PipeEnd ==
  /\ pc = "piping"
  /\ res' = [Happened(res, <<Event("write", "upstream")>>) EXCEPT
               !.sent = TRUE, !.ended = TRUE, !.body = "upstream body",
               !.writer = "pipe"]
  /\ pc' = "done"
  /\ UNCHANGED <<config, uiThemeConfig, now, uuidNext, held, req, outbound, log, served>>
\* 'error' on the backend leg of a streaming forwarder: every handler logs
\* and does nothing else.
BackendError ==
  /\ pc \in {"streaming", "piping"}
  /\ LegState("backend") \in {"open", "responded"}
  /\ outbound' = SetLeg("backend", "failed")
  /\ log' = log \cup {"Error"}
  /\ pc' = "hung"
  /\ UNCHANGED <<config, uiThemeConfig, now, uuidNext, held, req, res, served>>
\* The hub answers app.get('/forwardMarketToCdap'): the first chunk of its
\* body is written into the backend request, which starts with it; the rest
\* of the body is still to come.
HubResponse ==
  /\ pc = "streaming"
  /\ req.route = "/forwardMarketToCdap"
  /\ LegState("hub") = "open"
  /\ outbound' = [i \in DOMAIN outbound |->
                    IF outbound[i].leg = "hub"
                      THEN [outbound[i] EXCEPT !.state = "responded"]
                      ELSE [outbound[i] EXCEPT !.begun = TRUE]]
  /\ UNCHANGED <<config, uiThemeConfig, now, uuidNext, held, req, res, log, pc, served>>
\* The hub's body ends: the pipe ends the backend request's body.
HubEnd ==
  /\ pc \in {"streaming", "piping", "done"}
  /\ req.route = "/forwardMarketToCdap"
  /\ LegState("hub") = "responded"
  /\ outbound' = SetLeg("hub", "completed")
  /\ UNCHANGED <<config, uiThemeConfig, now, uuidNext, held, req, res, log, pc, served>>
\* 'error' on the hub leg of app.get('/forwardMarketToCdap') before the hub
\* answered: the handler logs; nothing was written into the backend request
\* and nothing ends it, so it never starts.
HubError ==
  /\ pc = "streaming"
  /\ req.route = "/forwardMarketToCdap"
  /\ LegState("hub") = "open"
  /\ outbound' = SetLeg("hub", "failed")
  /\ log' = log \cup {"Error"}
  /\ pc' = "hung"
  /\ UNCHANGED <<config, uiThemeConfig, now, uuidNext, held, req, res, served>>
\* The callback of app.get('/market') without an error.
MarketCallback(statusCode) ==
  /\ pc = "awaiting"
  /\ req.route = "/market"
  /\ LegState("hub") = "open"
  /\ res' = marketCallback(res, FALSE, Response(statusCode))
  /\ outbound' = LegResponded("hub", statusCode)
  /\ pc' = "done"
  /\ UNCHANGED <<config, uiThemeConfig, now, uuidNext, held, req, log, served>>
\* Faulty variant of MarketError: the failed request to the hub is issued
\* once more.
MarketErrorRetries ==
  /\ pc = "awaiting"
  /\ req.route = "/market"
  /\ LegState("hub") = "open"
  /\ outbound' = Append(SetLeg("hub", "failed"), Outbound("hub", "GET", NoHeaders))
  /\ log' = log \cup {"[ERROR] Market request to url"}
  /\ UNCHANGED <<config, uiThemeConfig, now, uuidNext, held, req, res, pc, served>>
\* The request to the hub fails: request emits 'error', which runs the
\* callback (registered as an 'error' listener) and then the handler's own
\* .on('error').
MarketError ==
  /\ pc = "awaiting"
  /\ req.route = "/market"
  /\ LegState("hub") = "open"
  /\ res' = marketOnError(marketCallback(res, TRUE, NoResponse))
  /\ outbound' = SetLeg("hub", "failed")
  /\ log' = log \cup {"[ERROR] Market request to url", "[ERROR] Market request had error"}
  /\ pc' = "done"
  /\ UNCHANGED <<config, uiThemeConfig, now, uuidNext, held, req, served>>
BackendStatus(r) ==
  /\ r.route = "/backendstatus"
  /\ Begin(r, backendstatus(r, securityHeaderMiddleware(FreshRes)), uuidAfterMiddleware)
  /\ log' = {}
  /\ UNCHANGED <<uiThemeConfig, held>>
\* The callback of app.get('/backendstatus') without an error.
BackendStatusCallback(statusCode) ==
  /\ pc = "awaiting"
  /\ req.route = "/backendstatus"
  /\ LegState("backend") = "open"
  /\ res' = backendstatusCallback(res, FALSE, Response(statusCode))
  /\ outbound' = LegResponded("backend", statusCode)
  /\ pc' = "done"
  /\ UNCHANGED <<config, uiThemeConfig, now, uuidNext, held, req, log, served>>
\* The request to the router fails: 'error' runs the callback, then the
\* handler's .on('error'), which finds the headers sent and does nothing.
BackendStatusError ==
  /\ pc = "awaiting"
  /\ req.route = "/backendstatus"
  /\ LegState("backend") = "open"
  /\ res' = backendstatusOnError(backendstatusCallback(res, TRUE, NoResponse))
  /\ outbound' = SetLeg("backend", "failed")
  /\ log' = log \cup {"Server responded with error"}
  /\ pc' = "done"
  /\ UNCHANGED <<config, uiThemeConfig, now, uuidNext, held, req, served>>
Authentication(r) ==
  /\ r.route \in {"POST /login", "/accessToken"}
  /\ Begin(r, authentication(r, securityHeaderMiddleware(FreshRes)), uuidAfterMiddleware)
  /\ log' = {}
  /\ UNCHANGED <<uiThemeConfig, held>>
\* The auth server answers: the callback of authentication without an error.
\* Where JSON.parse throws the exception leaves the callback and nothing
\* answers the client.
AuthenticationCallback(statusCode, nbody) ==
  /\ pc = "awaiting"
  /\ req.route \in {"POST /login", "/accessToken"}
  /\ LegState("auth") = "open"
  /\ res' = authenticationCallback(res, FALSE, Response(statusCode), nbody)
  /\ outbound' = LegResponded("auth", statusCode)
  /\ pc' = IF res'.sent THEN "done" ELSE "hung"
  /\ UNCHANGED <<config, uiThemeConfig, now, uuidNext, held, req, log, served>>
\* The request to the auth server fails.
AuthenticationError ==
  /\ pc = "awaiting"
  /\ req.route \in {"POST /login", "/accessToken"}
  /\ LegState("auth") = "open"
  /\ res' = authenticationCallback(res, TRUE, NoResponse, "")
  /\ outbound' = SetLeg("auth", "failed")
  /\ pc' = "done"
  /\ UNCHANGED <<config, uiThemeConfig, now, uuidNext, held, req, log, served>>
\* The client goes away while its request is being served.  No handler
\* listens for it and nothing aborts the outbound requests.
ClientDisconnect ==
  /\ pc \in {"streaming", "piping", "awaiting"}
  /\ res' = [res EXCEPT !.clientGone = TRUE]
  /\ pc' = "gone"
  /\ UNCHANGED <<config, uiThemeConfig, now, uuidNext, held, req, outbound, log, served>>
InFlight == {"open", "responded"}
\* The outbound requests of a request whose client went away run to their
\* end on their own.
UpstreamRunsOut ==
  /\ pc = "gone"
  /\ \E i \in DOMAIN outbound : outbound[i].state \in InFlight
  /\ outbound' = [i \in DOMAIN outbound |->
                    IF outbound[i].state \in InFlight
                      THEN [outbound[i] EXCEPT !.state = "completed", !.begun = TRUE]
                      ELSE outbound[i]]
  /\ UNCHANGED <<config, uiThemeConfig, now, uuidNext, held, req, res, log, pc, served>>
\* A request goes down the stack: the middleware it passes works on res, the
\* layer that answers runs its handler.  q is the request as it arrives,
\* req.route is the route that took it.
Dispatch(q) ==
  /\ pc \in {"idle", "done", "hung", "gone"}
  /\ Started < MaxServed
  /\ \E walk \in {handle(stack, q.method, q.path)} :
     \E passed \in {{walk[i].name : i \in DOMAIN walk}} :
     \E r \in {[q EXCEPT !.route = HandledBy(walk)]} :
     \E r1 \in {IF "helmet" \in passed
                   THEN securityHeaderMiddleware([FreshRes EXCEPT !.stack = walk])
                   ELSE [FreshRes EXCEPT !.stack = walk]} :
        /\ Begin(r, routeHandler(r, r1),
                 IF "nonce" \in passed THEN uuidNext + 1 ELSE uuidNext)
        /\ uiThemeConfig' = IF r.route = "/updateTheme" /\ updateThemeAssigns(r)
                              THEN extractUITheme(r.themePath)
                              ELSE uiThemeConfig
        /\ held' = IF r.route = "/sessionToken" /\ res'.token.kind = "sealed"
                     THEN [token |-> res'.token, auth |-> r.auth, at |-> r.at]
                     ELSE held
        /\ log' = {}
\* Time passes.
Tick ==
  /\ now < MaxTime
  /\ now' = now + 1
  /\ UNCHANGED <<config, uiThemeConfig, uuidNext, held, req, res, outbound, log, pc, served>>

\* ------------------------------------------------------- specifications
Config(mode, idHeader, hsts, maxAge, sub, preload) ==
  [authMode |-> mode, identityHeader |-> idHeader, hstsEnabled |-> hsts,
   hstsMaxAge |-> maxAge, hstsIncludeSubDomains |-> sub, hstsPreload |-> preload]
\* The state makeApp leaves: serverNonce is the first uuid drawn.
InitProcess ==
  /\ serverNonce = 1
  /\ uuidNext = 2
  /\ uiThemeConfig = "default.json"
  /\ now = 0
  /\ held = NothingHeld
  /\ req = NoRequest
  /\ res = FreshRes
  /\ outbound = <<>>
  /\ log = {}
  /\ pc = "idle"
  /\ served = <<>>

\* What a client may put into a request.
Auths == {UNDEF, "Bearer A", "Bearer B"}
ForgedToken == Sealed("forged", "Bearer A", 0)
OfferedTokens ==
  {NoSessionToken, MalformedToken, ForgedToken}
    \cup (IF held.token.kind = "sealed" THEN {held.token} ELSE {})
StatusCodes == {200, 500}
\* Two of the source links: the hub and another host.
PolicySources == {[scheme |-> "https", host |-> "hub.example"],
                  [scheme |-> "https", host |-> "evil.example"]}
WireNames ==
  {{}, {"Authorization"}, {"authorization"}, {"X-User"}, {"x-user"},
   {"AUTHORIZATION", "X-User"}}

\* The gateway under every authentication mode: the session gate, the
\* allow-list and the forwarding paths.
Init ==
  /\ nodeEnv = "production"
  /\ authAddress = "http://auth.example/token"
  /\ cdapConfig \in {Config(m, h, "false", <<"0">>, "false", "false") :
                       m \in AuthModes, h \in IdentityHeaders}
  /\ InitProcess
Next ==
  \/ \E a \in Auths : SessionToken(Request("/sessionToken", a, NoSessionToken))
  \/ \E a \in Auths, t \in OfferedTokens : Namespaces(Request("/namespaces", a, t))
  \/ \E a \in Auths, t \in OfferedTokens, s \in SourceLinks :
       ForwardMarketToCdap([Request("/forwardMarketToCdap", a, t) EXCEPT !.source = s])
  \/ \E s \in SourceLinks :
       Market([Request("/market", UNDEF, NoSessionToken) EXCEPT !.source = s])
  \/ \E a \in Auths, t \in OfferedTokens, p \in ThemePaths :
       UpdateTheme([Request("/updateTheme", a, t) EXCEPT !.themePath = p])
  \/ \E a \in Auths :
       DownloadLogs([Request("/downloadLogs", a, NoSessionToken) EXCEPT
                       !.qtype = "download", !.filename = "logs.txt"])
  \/ \E a \in Auths : Api(Request("/api", a, NoSessionToken))
  \/ \E c \in StatusCodes, w \in WireNames : BackendResponse(c, Wire(w))
  \/ PipeEnd
  \/ BackendError
  \/ HubResponse
  \/ HubError
  \/ \E c \in StatusCodes : MarketCallback(c)
  \/ MarketError
Spec == Init /\ [][Next]_vars

\* The session token codec and the session gate, with the clock running.
InitSession ==
  /\ nodeEnv = "production"
  /\ authAddress = "http://auth.example/token"
  /\ cdapConfig \in {Config(m, "X-User", "false", <<"0">>, "false", "false") :
                       m \in AuthModes}
  /\ InitProcess
NextSession ==
  \/ \E a \in Auths : SessionToken(Request("/sessionToken", a, NoSessionToken))
  \/ \E a \in Auths, t \in OfferedTokens : Namespaces(Request("/namespaces", a, t))
  \/ \E a \in Auths, t \in OfferedTokens, s \in PolicySources :
       ForwardMarketToCdap([Request("/forwardMarketToCdap", a, t) EXCEPT !.source = s])
  \/ \E a \in Auths, t \in OfferedTokens, p \in ThemePaths :
       UpdateTheme([Request("/updateTheme", a, t) EXCEPT !.themePath = p])
  \/ BackendResponse(200, Wire({}))
  \/ PipeEnd
  \/ HubResponse
  \/ Tick
SpecSession == InitSession /\ [][NextSession]_vars

\* The security header policy under every run mode and HSTS configuration.
InitPolicy ==
  /\ nodeEnv \in {"development", "production"}
  /\ authAddress \in {"", "http://auth.example/token"}
  /\ cdapConfig \in {Config("BASIC", "X-User", e, a, s, p) :
                       e \in BoolStrings, a \in MaxAgeStrings,
                       s \in BoolStrings, p \in BoolStrings}
  /\ InitProcess
PolicyAuths == {UNDEF, "Bearer A"}
PolicyTokens == {NoSessionToken} \cup (IF held.token.kind = "sealed" THEN {held.token} ELSE {})
PolicyWireNames == {{}, {"Content-Security-Policy"}, {"Strict-Transport-Security"}}
NextPolicy ==
  \/ \E a \in PolicyAuths : SessionToken(Request("/sessionToken", a, NoSessionToken))
  \/ \E t \in PolicyTokens : Namespaces(Request("/namespaces", "Bearer A", t))
  \/ \E t \in PolicyTokens, s \in PolicySources :
       ForwardMarketToCdap([Request("/forwardMarketToCdap", "Bearer A", t) EXCEPT !.source = s])
  \/ \E s \in PolicySources :
       Market([Request("/market", UNDEF, NoSessionToken) EXCEPT !.source = s])
  \/ \E t \in PolicyTokens :
       UpdateTheme([Request("/updateTheme", "Bearer A", t) EXCEPT !.themePath = "good.json"])
  \/ DownloadLogs([Request("/downloadLogs", "Bearer A", NoSessionToken) EXCEPT
                     !.qtype = "download", !.filename = "logs.txt"])
  \/ \E a \in PolicyAuths : LoginPage(Request("/login", a, NoSessionToken))
  \/ \E b \in BOOLEAN : Pipelines([Request("/pipelines", UNDEF, NoSessionToken) EXCEPT !.bcookie = b])
  \/ \E b \in BOOLEAN : Cdap([Request("/cdap", UNDEF, NoSessionToken) EXCEPT !.bcookie = b])
  \/ Status(Request("/status", UNDEF, NoSessionToken))
  \/ ConfigJs(Request("/config.js", UNDEF, NoSessionToken))
  \/ UiThemeJs(Request("/ui-theme.js", UNDEF, NoSessionToken))
  \/ \E w \in PolicyWireNames : BackendResponse(200, Wire(w))
  \/ PipeEnd
  \/ BackendError
  \/ HubResponse
  \/ \E c \in StatusCodes : MarketCallback(c)
  \/ MarketError
SpecPolicy == InitPolicy /\ [][NextPolicy]_vars

\* ----------------------------------------------------------------- claims
\* The routes that relay an upstream response to the client.
\* The streaming forwarders and the callback routes, with the failures of
\* their outbound legs and a client that goes away.
InitStream ==
  /\ nodeEnv = "production"
  /\ authAddress = "https://auth.example"
  /\ cdapConfig \in {Config(m, "X-User", "false", <<"0">>, "false", "false") :
                        m \in {"BASIC", "PROXY"}}
  /\ InitProcess
StreamStatusCodes == {200, 401}
NextStream ==
  \/ SessionToken(Request("/sessionToken", "Bearer A", NoSessionToken))
  \/ \E t \in PolicyTokens : Namespaces(Request("/namespaces", "Bearer A", t))
  \/ \E t \in PolicyTokens :
       ForwardMarketToCdap([Request("/forwardMarketToCdap", "Bearer A", t) EXCEPT
                              !.source = [scheme |-> "https", host |-> "hub.example"]])
  \/ \E s \in PolicySources :
       Market([Request("/market", UNDEF, NoSessionToken) EXCEPT !.source = s])
  \/ DownloadLogs([Request("/downloadLogs", "Bearer A", NoSessionToken) EXCEPT
                     !.qtype = "download", !.filename = "logs.txt"])
  \/ BackendStatus(Request("/backendstatus", UNDEF, NoSessionToken))
  \/ \E p \in {"POST /login", "/accessToken"} :
       Authentication(Request(p, UNDEF, NoSessionToken))
  \/ \E c \in StreamStatusCodes : BackendResponse(c, Wire({}))
  \/ PipeEnd
  \/ BackendError
  \/ HubResponse
  \/ HubEnd
  \/ HubError
  \/ \E c \in StreamStatusCodes : MarketCallback(c)
  \/ MarketError
  \/ \E c \in StreamStatusCodes : BackendStatusCallback(c)
  \/ BackendStatusError
  \/ \E c \in StreamStatusCodes, b \in AuthBodies : AuthenticationCallback(c, b)
  \/ AuthenticationError
  \/ ClientDisconnect
  \/ UpstreamRunsOut
SpecStream == InitStream /\ [][NextStream]_vars

\* Requests by method and path, down the whole stack.
InitPipeline ==
  /\ nodeEnv \in {"development", "production"}
  /\ authAddress = "https://auth.example"
  /\ cdapConfig = Config("BASIC", "X-User", "false", <<"0">>, "false", "false")
  /\ InitProcess
\* found: whether the file the request asks for can be read (the asset under
\* a static mount, cdap-ui-config.json for /ui-config.js).
Paths ==
  {<<>>, <<"cdap">>, <<"cdap", "ns">>, <<"pipelines">>, <<"pipelines", "ns">>,
   <<"api", "v3">>, <<"status">>, <<"robots.txt">>, <<"login">>, <<"sessionToken">>,
   <<"config.js">>, <<"ui-theme.js">>, <<"updateTheme">>, <<"namespaces", "ns", "apps">>,
   <<"forwardMarketToCdap">>, <<"downloadLogs">>,
   <<"assets", "a.png">>, <<"cdap_assets", "a.js">>, <<"dll_assets", "a.js">>,
   <<"login_assets", "a.js">>, <<"common_assets", "a.js">>,
   <<"cdap_assets">>, <<"cdapx">>, <<"unknown", "a.js">>, <<"favicon.ico">>,
   <<"ui-config.js">>}
PipelineRequest(m, p, f) ==
  [Request("", "Bearer A", NoSessionToken) EXCEPT
     !.method = m, !.path = p, !.found = f, !.qtype = "download",
     !.filename = "logs.txt"]
NextPipeline ==
  \/ \E m \in Methods, p \in Paths : Dispatch(PipelineRequest(m, p, FALSE))
  \/ \E p \in Paths : Dispatch(PipelineRequest("GET", p, TRUE))
  \/ \E c \in StatusCodes : BackendResponse(c, Wire({}))
  \/ PipeEnd
  \/ \E c \in StreamStatusCodes, b \in AuthBodies : AuthenticationCallback(c, b)
SpecPipeline == InitPipeline /\ [][NextPipeline]_vars

\* GET /downloadLogs under every mode, credential and query type, against
\* upstream answers with and without headers of their own.
InitLogs ==
  /\ nodeEnv = "production"
  /\ authAddress = "https://auth.example"
  /\ cdapConfig \in {Config(m, h, "false", <<"0">>, "false", "false") :
                       m \in AuthModes, h \in IdentityHeaders}
  /\ InitProcess
LogsAuths == {UNDEF, "Bearer A"}
\* The CDAP_Auth_Token cookie, "" where the request has none.
LogsCookies == {"", "cookie-token"}
LogsIdentities == {UNDEF, "alice"}
\* req.query.type.
LogsTypes == {"download", "view"}
LogsWireNames == {{}, {"Content-Type"}, {"cache-control", "Content-Disposition"}}
NextLogs ==
  \/ \E a \in LogsAuths, c \in LogsCookies, i \in LogsIdentities, t \in LogsTypes :
       DownloadLogs([Request("/downloadLogs", a, NoSessionToken) EXCEPT
                       !.cookie = c, !.identity = i, !.qtype = t,
                       !.filename = "logs.txt"])
  \/ \E c \in StreamStatusCodes, w \in LogsWireNames : BackendResponse(c, Wire(w))
  \/ PipeEnd
SpecLogs == InitLogs /\ [][NextLogs]_vars

ForwardingRoutes == {"/api", "/forwardMarketToCdap", "/downloadLogs", "/namespaces"}
\* The endpoints behind the session gate.
ProtectedRoutes == {"/namespaces", "/forwardMarketToCdap", "/updateTheme"}
TokenMissing(r) == r.stoken.kind = "absent"
TokenFailsValidation(r) ==
  r.stoken.kind # "absent" /\ ~validateToken(r.stoken, cdapConfig, r.auth, r.at)
\* The response the gate gives a request it turns away.
SessionRejection ==
  /\ pc = "done"
  /\ res.sent
  /\ res.status = 500
  /\ res.body = "Unable to validate session"
  /\ outbound = <<>>

\* C1: in PROXY mode, on every forwarding path, the response delivered to the
\* client carries neither the Authorization header nor the configured
\* identity header, whatever header names the upstream response carried.
C1_ProxyModeStripsRelayedHeaders ==
  (/\ cdapConfig.authMode = "PROXY"
   /\ req.route \in ForwardingRoutes
   /\ pc = "done"
   /\ LegState("backend") = "responded")
    => /\ "authorization" \notin DOMAIN res.headers
       /\ ToLower(cdapConfig.identityHeader) \notin DOMAIN res.headers

\* C2 (as claimed): a hub request whose source is not allow-listed creates no
\* outbound request and is answered 403, whatever its other inputs.
C2_UnverifiedSourceGets403 ==
  (/\ pc # "idle"
   /\ req.route \in {"/market", "/forwardMarketToCdap"}
   /\ ~isVerifiedMarketHost(cdapConfig, req.source))
    => /\ outbound = <<>>
       /\ res.sent
       /\ res.status = 403
\* C2 (amended): a hub request whose source is not allow-listed creates no
\* outbound request; it is answered 403, except that GET /forwardMarketToCdap
\* answers a missing or invalid session token with 500 first.
C2_UnverifiedSourceNoOutbound ==
  (/\ pc # "idle"
   /\ req.route \in {"/market", "/forwardMarketToCdap"}
   /\ ~isVerifiedMarketHost(cdapConfig, req.source))
    => /\ outbound = <<>>
       /\ pc = "done"
       /\ res.sent
       /\ IF req.route = "/forwardMarketToCdap"
               /\ (TokenMissing(req) \/ TokenFailsValidation(req))
            THEN res.status = 500 /\ res.body = "Unable to validate session"
            ELSE res.status = 403
C2_Witness ==
  /\ pc = "done"
  /\ req.route = "/forwardMarketToCdap"
  /\ req.source.host = "hub.example.evil.example"
  /\ ~TokenMissing(req)
  /\ ~TokenFailsValidation(req)
  /\ res.status = 403
  /\ outbound = <<>>

\* C3: a POST /namespaces/... whose session token is missing or fails
\* validation is answered 500 'Unable to validate session', and no outbound
\* request exists for it in any state, so nothing of its body is forwarded.
C3_NamespacesGate ==
  (/\ pc # "idle"
   /\ req.route = "/namespaces"
   /\ (TokenMissing(req) \/ TokenFailsValidation(req)))
    => SessionRejection
C3_Witness ==
  /\ req.route = "/namespaces"
  /\ TokenMissing(req)
  /\ SessionRejection

\* The synchronous handler of a protected endpoint.
ProtectedHandler(r, r0) ==
  CASE r.route = "/namespaces" -> namespaces(r, r0)
    [] r.route = "/forwardMarketToCdap" -> forwardMarketToCdap(r, r0)
    [] r.route = "/updateTheme" -> updateTheme(r, r0)
\* Every session-token header a client can send.
AllTokens ==
  {NoSessionToken, MalformedToken, ForgedToken}
    \cup {Sealed("server", c, i) : c \in (Auths \ {UNDEF}) \cup {""}, i \in 0..MaxTime}

\* C4: on a protected endpoint, a request without session-token header and a
\* request that differs from it only in carrying a session token that fails
\* validation get the same status and the same body, and neither creates an
\* outbound request.
C4_MissingAndInvalidAlike ==
  (/\ pc # "idle"
   /\ req.route \in ProtectedRoutes
   /\ (TokenMissing(req) \/ TokenFailsValidation(req)))
    => \A t \in AllTokens :
         LET twin == [req EXCEPT !.stoken = t]
             o == ProtectedHandler(twin, securityHeaderMiddleware(FreshRes))
         IN (TokenMissing(twin) \/ TokenFailsValidation(twin))
              => /\ o.res.status = res.status
                 /\ o.res.body = res.body
                 /\ o.res.sent = res.sent
                 /\ o.outbound = <<>>
                 /\ outbound = <<>>
C4_Witness ==
  /\ req.route = "/updateTheme"
  /\ req.stoken = held.token
  /\ TokenFailsValidation(req)
  /\ req.themePath = "good.json"
  /\ SessionRejection

\* C5: a token GET /sessionToken returned for Authorization value A, presented
\* to a protected endpoint within its validity window, passes the gate
\* together with Authorization A and is turned away with any other
\* Authorization value, an absent one included.
C5_TokenRoundTrip ==
  (/\ pc # "idle"
   /\ req.route \in ProtectedRoutes
   /\ held.token.kind = "sealed"
   /\ held.auth # UNDEF
   /\ req.stoken = held.token
   /\ req.at - held.at <= SessionTimeout)
    => IF req.auth = held.auth
         THEN res.body # "Unable to validate session"
         ELSE SessionRejection
C5_Witness ==
  /\ pc = "streaming"
  /\ req.route = "/namespaces"
  /\ held.auth = "Bearer B"
  /\ req.stoken = held.token
  /\ req.auth = held.auth
  /\ req.at = held.at + SessionTimeout
  /\ Len(outbound) = 1

RenderedPage == pc = "done" /\ res.view # ""
\* nonceVal is a nonce, the one of this response's script-src, and no earlier
\* response had it.
NonceValBound ==
  /\ res.nonceVal.t = "uuid"
  /\ "content-security-policy" \in DOMAIN res.headers
  /\ res.headers["content-security-policy"] = scriptSrc(res.nonceVal, serverNonce)
  /\ res.nonceVal.n \in res.scriptSrc
  /\ \A i \in DOMAIN served :
       served[i].nonce # res.nonceVal /\ served[i].nonceVal # res.nonceVal

\* C7 (as claimed): in every run mode, the nonceVal of a rendered entry
\* template is defined, is the nonce of the same response's script-src, and
\* differs from the nonce of every other response.
C7_NonceValInEveryMode == RenderedPage => NonceValBound
\* C7 (amended): the same, in every run mode other than development.
C7_NonceValOutsideDevelopment ==
  (RenderedPage /\ ~isModeDevelopment) => NonceValBound
C7_Witness ==
  /\ RenderedPage
  /\ ~isModeDevelopment
  /\ served # <<>>
  /\ served[Len(served)].view = res.view
  /\ served[Len(served)].nonceVal.t = "uuid"
  /\ res.view = "cdap"

\* C8: no nonce value is reused: the nonces in the script-src of one response
\* and those in the script-src of another are disjoint.
C8_NoNonceReuse ==
  pc # "idle" => \A i \in DOMAIN served : served[i].scriptSrc \cap res.scriptSrc = {}

\* A config string, one character after the other.
RECURSIVE Str(_)
Str(chars) == IF chars = <<>> THEN "" ELSE Head(chars) \o Str(Tail(chars))
\* The security header middleware ran for the response.
PolicyApplied == pc # "idle" /\ res.nonce.t = "uuid"
\* Strict-Transport-Security as the config words it.
ConfiguredHsts ==
  "max-age=" \o Str(cdapConfig.hstsMaxAge)
    \o (IF cdapConfig.hstsIncludeSubDomains = "true" THEN "; includeSubDomains" ELSE "")
    \o (IF cdapConfig.hstsPreload = "true" THEN "; preload" ELSE "")
\* The header is there exactly when hsts.enabled is 'true', and as configured.
HstsAsConfigured ==
  IF cdapConfig.hstsEnabled = "true"
    THEN /\ "strict-transport-security" \in DOMAIN res.headers
         /\ res.headers["strict-transport-security"] = ConfiguredHsts
    ELSE "strict-transport-security" \notin DOMAIN res.headers
\* The backend's response brought a Strict-Transport-Security of its own.
UpstreamHstsRelayed ==
  \E i \in DOMAIN outbound :
    "strict-transport-security" \in DOMAIN outbound[i].resHeaders
\* C9 (as claimed): a response under the security header policy carries
\* Strict-Transport-Security if and only if hsts.enabled is 'true', and then
\* with max-age, includeSubDomains and preload as hsts.max.age,
\* hsts.include.sub.domains and hsts.preload say.
C9_HstsIffEnabled == PolicyApplied => HstsAsConfigured
\* C9 (amended): the same for every response under the policy that does not
\* relay an upstream Strict-Transport-Security header; a relayed one reaches
\* the client as the upstream sent it, whatever hsts.enabled says.
C9_HstsAsConfigured ==
  PolicyApplied
    => IF UpstreamHstsRelayed
         THEN /\ "strict-transport-security" \in DOMAIN res.headers
              /\ res.headers["strict-transport-security"] =
                   WireValue("Strict-Transport-Security")
         ELSE HstsAsConfigured
C9_Witness ==
  /\ pc = "done"
  /\ PolicyApplied
  /\ ~UpstreamHstsRelayed
  /\ cdapConfig.hstsEnabled = "true"
  /\ cdapConfig.hstsMaxAge = <<"4", "2">>
  /\ cdapConfig.hstsIncludeSubDomains = "false"
  /\ cdapConfig.hstsPreload = "true"
  /\ "strict-transport-security" \in DOMAIN res.headers
  /\ res.headers["strict-transport-security"] = "max-age=42; preload"

\* The response carries the policy with its own nonce.
CarriesNoncePolicy ==
  /\ "content-security-policy" \in DOMAIN res.headers
  /\ res.nonce.t = "uuid"
  /\ res.headers["content-security-policy"] = scriptSrc(res.nonce, serverNonce)
\* The backend's response brought a Content-Security-Policy of its own.
UpstreamPolicyRelayed ==
  \E i \in DOMAIN outbound :
    "content-security-policy" \in DOMAIN outbound[i].resHeaders
\* C10 (as claimed): in every run mode, every response to a request outside
\* the /api mount carries the policy with the response's nonce.
C10_PolicyInEveryMode ==
  (pc = "done" /\ req.route # "/api") => CarriesNoncePolicy
\* C10 (amended): in every run mode other than development, every response a
\* route handler sends or pipes carries a Content-Security-Policy: the policy
\* with the response's nonce, unless the relayed upstream response brought
\* one of its own.
C10_PolicyOutsideDevelopment ==
  (/\ pc = "done"
   /\ req.route # "/api"
   /\ ~isModeDevelopment
   /\ res.writer # "finalhandler")
    => /\ "content-security-policy" \in DOMAIN res.headers
       /\ IF UpstreamPolicyRelayed
            THEN res.headers["content-security-policy"] =
                   WireValue("Content-Security-Policy")
            ELSE CarriesNoncePolicy
C10_Witness ==
  /\ pc = "done"
  /\ req.route = "/downloadLogs"
  /\ ~isModeDevelopment
  /\ res.writer = "pipe"
  /\ ~UpstreamPolicyRelayed
  /\ CarriesNoncePolicy

\* C11: in GET /forwardMarketToCdap the request to the backend target is not
\* begun while the fetch of the hub source is still in progress: it begins
\* only once the source fetch has completed or failed.
C11_TargetWaitsForSource ==
  ~(/\ req.route = "/forwardMarketToCdap"
    /\ LegState("hub") \in InFlight
    /\ LegState("backend") \in InFlight
    /\ LegBegun("backend"))

\* C12: in a forwarded request (GET /forwardMarketToCdap, POST /namespaces,
\* GET /downloadLogs) stripAuthHeadersInProxyMode has run on a header object
\* before that object is set on or copied to the client response, and on the
\* upstream's headers before a byte of the upstream body is written.
C12_SanitizerRunsFirst ==
  req.route \in {"/forwardMarketToCdap", "/namespaces", "/downloadLogs"}
    => \A i \in DOMAIN res.events :
         res.events[i].op \in {"set", "pipeDest", "write"}
           => \E j \in 1..(i - 1) :
                res.events[j] = Event("strip", res.events[i].obj)

\* What can still happen to the request in flight.
RequestSteps ==
  \/ \E c \in StreamStatusCodes : BackendResponse(c, Wire({}))
  \/ PipeEnd
  \/ HubResponse
  \/ HubEnd
\* C13: in a streaming forwarder, after a network error on a leg was logged
\* the client response is ended, or a step that leads there is still to
\* come: the response is not left open forever.
C13_ErrorEndsResponse ==
  (/\ req.route \in {"/forwardMarketToCdap", "/namespaces", "/downloadLogs"}
   /\ "Error" \in log
   /\ ~res.clientGone
   /\ ~res.ended)
    => ENABLED RequestSteps

\* C14: status and headers are written to a client response at most once,
\* whatever callbacks run for the request.
C14_OneWriteAttempt == res.sends <= 1

\* C15: no outbound leg is issued twice for an inbound request, whatever
\* became of it, and an allow-listed GET /market issues exactly one GET to
\* the source.
C15_NoRetries ==
  pc # "idle"
    => /\ \A i, j \in DOMAIN outbound : outbound[i].leg = outbound[j].leg => i = j
       /\ (req.route = "/market" /\ isVerifiedMarketHost(cdapConfig, req.source))
            => /\ Len(outbound) = 1
               /\ outbound[1].leg = "hub"
               /\ outbound[1].method = "GET"
C15_Witness ==
  /\ pc = "done"
  /\ req.route = "/market"
  /\ isVerifiedMarketHost(cdapConfig, req.source)
  /\ LegState("hub") = "failed"
  /\ res.status = 502
  /\ Len(outbound) = 1

\* C16: once the client of a forwarded request has gone away mid-stream, an
\* outbound request of it does not run to its end on its own: it is aborted.
C16_DisconnectAborts ==
  (/\ pc = "gone"
   /\ req.route \in {"/forwardMarketToCdap", "/namespaces", "/downloadLogs", "/market"})
    => \A i \in DOMAIN outbound : outbound[i].state # "completed"

\* The fallback status of a callback route.
FallbackStatus(route) ==
  IF route \in {"/market", "/backendstatus"} THEN 502 ELSE 500
\* C17: on GET /market, GET /backendstatus, POST /login and POST /accessToken,
\* once the outbound call has answered or failed the client has a response:
\* with the upstream's status where there is one, with the fallback status
\* (502, 500 for login) where there is none.
C17_UpstreamStatusSurfaced ==
  (/\ req.route \in {"/market", "/backendstatus", "POST /login", "/accessToken"}
   /\ ~res.clientGone)
    => \A i \in DOMAIN outbound :
         /\ outbound[i].state = "responded"
              => res.sent /\ res.status = outbound[i].statusCode
         /\ outbound[i].state = "failed"
              => res.sent /\ res.status = FallbackStatus(req.route)

\* The stages in the order the specification lists them, the icon ahead of
\* them.
StageOrder ==
  <<"favicon", "compression", "api", "bodyParser", "cookieParser", "nonce",
    "helmet", "errorHandler", "route", "static", "render">>
Rank(stage) == CHOOSE i \in DOMAIN StageOrder : StageOrder[i] = stage
Stages(walk) == [i \in DOMAIN walk |-> walk[i].stage]
\* A request that went down the stack and was taken by a route handler, a
\* static mount or a render route.
AnsweredBehindMiddleware ==
  /\ pc # "idle"
  /\ res.stack # <<>>
  /\ res.stack[Len(res.stack)].stage \in {"route", "static", "render"}
UnderApi == pc # "idle" /\ req.path # <<>> /\ Head(req.path) = "api"

\* C18 (as claimed): every request that is answered by a route handler, a static
\* mount or a render route went through the security-header stage before it,
\* and in production through nonce assignment before that.
C18_SecurityBeforeEveryHandler ==
  AnsweredBehindMiddleware
    => \E j \in 1..(Len(res.stack) - 1) :
         /\ res.stack[j].stage = "helmet"
         /\ nodeEnv = "production"
              => \E i \in 1..(j - 1) : res.stack[i].stage = "nonce"

\* C18 (amended): the stages a request goes through come in the listed order;
\* a request under /api is taken by the forwarder behind compression alone and
\* reaches no body parser; every request taken by a route handler, a static
\* mount or a render route went through compression, both body parsers and
\* cookie parsing, and, outside development only, through nonce assignment
\* and then the security headers; in development it went through neither.
C18_StagesInOrder ==
  /\ pc # "idle"
       => \A i, j \in DOMAIN res.stack :
            i < j => Rank(res.stack[i].stage) <= Rank(res.stack[j].stage)
  /\ (UnderApi /\ res.stack # <<>>)
       => /\ req.route = "/api"
          /\ Stages(res.stack) = <<"compression", "api">>
  /\ AnsweredBehindMiddleware
       => SubSeq(Stages(res.stack), 1, Len(res.stack) - 1)
            = <<"compression", "bodyParser", "bodyParser", "cookieParser">>
              \o (IF isModeDevelopment THEN <<>> ELSE <<"nonce", "helmet">>)
C18_Witness ==
  /\ UnderApi
  /\ req.method = "POST"
  /\ Stages(res.stack) = <<"compression", "api">>
  /\ nodeEnv = "production"

StaticPrefixes ==
  {"assets", "cdap_assets", "dll_assets", "login_assets", "common_assets"}
\* A request under a static mount for which express.static finds no file.
MissingAsset ==
  /\ pc # "idle"
  /\ res.stack # <<>>
  /\ req.path # <<>>
  /\ Head(req.path) \in StaticPrefixes
  /\ ~req.found

\* C19: a request under a static mount that matches no file is answered 404 by
\* the mount's own final handler; it reaches no render route and no template
\* is rendered for it.
C19_MissingAssetIs404 ==
  MissingAsset
    => /\ pc = "done"
       /\ res.sent
       /\ res.status = 404
       /\ res.writer = "finalhandler"
       /\ res.view = ""
       /\ res.stack[Len(res.stack)].stage = "static"
       /\ \A i \in DOMAIN res.stack : res.stack[i].stage # "render"
C19_Witness ==
  /\ MissingAsset
  /\ req.method = "GET"
  /\ req.path = <<"cdap_assets", "a.js">>
  /\ res.status = 404

\* The body GET /ui-theme.js is answered with in the current state.
ThemeAnswer ==
  uiThemeJs(Request("/ui-theme.js", JsUndefined, NoSessionToken), FreshRes).res.body
\* The request being handled is a POST /updateTheme that went through.
ThemeUpdated ==
  /\ req.route = "/updateTheme"
  /\ pc = "done"
  /\ res.body = "Theme updated"

ConfigFileUnreadable ==
  /\ pc # "idle"
  /\ req.route = "/ui-config.js"
  /\ ~req.found

\* C21: a request that meets an unreadable config file is answered by its own
\* handler, which caught the failure and logged it; the answer is not
\* express's error page.
C21_ConfigFailureCaughtAndLogged ==
  ConfigFileUnreadable
    => /\ res.sent
       /\ res.writer = "handler"
       /\ res.status # 500
       /\ log # {}

\* The backend leg of the request being handled.
BackendLeg == outbound[CHOOSE i \in DOMAIN outbound : outbound[i].leg = "backend"]
\* GET /downloadLogs whose upstream has answered.
LogsAnswered ==
  /\ req.route = "/downloadLogs"
  /\ LegState("backend") = "responded"
OwnHeaderSet == \E i \in DOMAIN res.events : res.events[i] = Event("set", "responseHeaders")
\* The header on the response is the handler's own, or the upstream brought
\* one of that name, which the pipe put in its place.
Delivered(name, value) ==
  name \in DOMAIN BackendLeg.resHeaders
    \/ (name \in DOMAIN res.headers /\ res.headers[name] = value)
NotDelivered(name) ==
  name \in DOMAIN BackendLeg.resHeaders \/ name \notin DOMAIN res.headers

\* C22: GET /downloadLogs sets its own response headers exactly when the
\* upstream answers 200: Cache-Control 'no-cache, no-store' always,
\* Content-Disposition 'attachment; filename=<filename>' iff the query type is
\* 'download', Content-Type 'text/plain' iff it is not; on any other status it
\* sets none of them; the upstream body is streamed to the client either way.
C22_OwnHeadersOn200Only ==
  LogsAnswered
    => /\ OwnHeaderSet <=> BackendLeg.statusCode = 200
       /\ BackendLeg.statusCode = 200
            => /\ Delivered("cache-control", "no-cache, no-store")
               /\ IF req.qtype = "download"
                    THEN /\ Delivered("content-disposition",
                                      "attachment; filename=" \o req.filename)
                         /\ NotDelivered("content-type")
                    ELSE /\ Delivered("content-type", "text/plain")
                         /\ NotDelivered("content-disposition")
       /\ BackendLeg.statusCode # 200
            => /\ NotDelivered("cache-control")
               /\ NotDelivered("content-disposition")
               /\ NotDelivered("content-type")
       /\ res.status = BackendLeg.statusCode
       /\ pc = "done"
            => /\ res.body = "upstream body"
               /\ res.events[Len(res.events)] = Event("write", "upstream")
C22_Witness ==
  /\ LogsAnswered
  /\ pc = "done"
  /\ BackendLeg.statusCode = 200
  /\ BackendLeg.resHeaders = NoHeaders
  /\ req.qtype = "view"
  /\ res.headers["content-type"] = "text/plain"
  /\ "content-disposition" \notin DOMAIN res.headers

Legs == {outbound[i].leg : i \in DOMAIN outbound}
SessionGatePassed(r) ==
  r.stoken.kind # "absent" /\ validateToken(r.stoken, cdapConfig, r.auth, r.at)

\* C23: GET /forwardMarketToCdap has outbound requests, one to the hub and one
\* to the backend, exactly when the session gate and then the allow-list gate
\* passed; a request that fails a gate has no outbound request in any of its
\* states and is answered with the status of the first gate it fails: 500 for
\* the session gate, 403 for the allow-list.
C23_BothGatesBeforeOutbound ==
  (pc # "idle" /\ req.route = "/forwardMarketToCdap")
    => IF ~SessionGatePassed(req)
         THEN /\ outbound = <<>>
              /\ pc = "done"
              /\ res.sent
              /\ res.status = 500
         ELSE IF ~isVerifiedMarketHost(cdapConfig, req.source)
           THEN /\ outbound = <<>>
                /\ pc = "done"
                /\ res.sent
                /\ res.status = 403
           ELSE /\ Len(outbound) = 2
                /\ Legs = {"hub", "backend"}
C23_Witness ==
  /\ pc = "done"
  /\ req.route = "/forwardMarketToCdap"
  /\ req.stoken.kind # "absent"
  /\ ~SessionGatePassed(req)
  /\ ~isVerifiedMarketHost(cdapConfig, req.source)
  /\ res.status = 500
  /\ outbound = <<>>

\* The three checks of POST /updateTheme.
ThemeChecksPass(r) ==
  /\ SessionGatePassed(r)
  /\ r.themePath # ""
  /\ ~extractUIThemeThrows(r.themePath)

\* C24: the theme GET /ui-theme.js serves changes only in a step that handles
\* a POST /updateTheme with a valid session token, a non-empty uiThemePath and
\* a theme file that can be extracted; a POST /updateTheme that fails one of
\* the three is answered 500 and leaves the theme as it was.
C24_ThemeFrame ==
  [][/\ uiThemeConfig' # uiThemeConfig
          => /\ Started' > Started
             /\ req'.route = "/updateTheme"
             /\ ThemeChecksPass(req')
     /\ (Started' > Started /\ req'.route = "/updateTheme" /\ ~ThemeChecksPass(req'))
          => /\ pc' = "done"
             /\ res'.sent
             /\ res'.status = 500
             /\ uiThemeConfig' = uiThemeConfig
             /\ ThemeAnswer' = ThemeAnswer]_vars
C24_Witness ==
  /\ pc = "done"
  /\ req.route = "/updateTheme"
  /\ SessionGatePassed(req)
  /\ req.themePath = "bad.json"
  /\ res.status = 500
  /\ uiThemeConfig = "default.json"

\* GET /downloadLogs, its outbound request created.
LogsRequested ==
  /\ req.route = "/downloadLogs"
  /\ pc # "idle"
  /\ outbound # <<>>
HasAuthorization(r) == r.auth \notin {UNDEF, ""}

\* C25: the outbound request of GET /downloadLogs carries the inbound
\* Authorization value where there is one, whatever the cookie; else 'Bearer '
\* and the CDAP_Auth_Token cookie where there is one; else no headers at all.
\* The configured identity header goes out only in PROXY mode with an inbound
\* Authorization header, and nothing else of the inbound headers goes out.
C25_CredentialSelection ==
  LogsRequested
    => /\ Len(outbound) = 1
       /\ HasAuthorization(req)
            => BackendLeg.headers["authorization"] = req.auth
       /\ (~HasAuthorization(req) /\ req.cookie # "")
            => BackendLeg.headers = ("authorization" :> ("Bearer " \o req.cookie))
       /\ (~HasAuthorization(req) /\ req.cookie = "")
            => BackendLeg.headers = NoHeaders
       /\ cdapConfig.identityHeader \in DOMAIN BackendLeg.headers
            => cdapConfig.authMode = "PROXY" /\ HasAuthorization(req)
       /\ DOMAIN BackendLeg.headers \subseteq {"authorization", cdapConfig.identityHeader}
C25_Witness ==
  /\ LogsRequested
  /\ req.auth = "Bearer A"
  /\ req.cookie = "cookie-token"
  /\ cdapConfig.authMode = "PROXY"
  /\ BackendLeg.headers["authorization"] = "Bearer A"
  /\ cdapConfig.identityHeader \in DOMAIN BackendLeg.headers
====
